---------------------------- MODULE Spec2Model ----------------------------
(***************************************************************************)
(* A model of the demo catalog's client-side state: the public view        *)
(* (UserInterface.tsx) and the admin view (AdminInterface.tsx), their       *)
(* three observeQuery subscriptions (Demo, Tag, DemoTag), the enrichment    *)
(* of DemoTag relationships through Tag.get, the one-shot tag fetches and   *)
(* the derived view getFilteredDemos.                                       *)
(*                                                                          *)
(* Values.  Ids, colours and links are atomic strings; NULL stands for an   *)
(* absent one (null or undefined).  Display names, tag names and the search *)
(* term are sequences of one-character strings, so that toLowerCase and     *)
(* includes are computed character by character; NoString stands for an    *)
(* absent (null or undefined) string and <<>> for the empty string "".      *)
(* A null item of a snapshot is represented by a record whose id is NULL:   *)
(* every test the code applies to an item (`tag && tag.id && tag.name`,     *)
(* `!item || !item.tagId || !item.demoId`) treats the two alike.            *)
(***************************************************************************)
EXTENDS Integers, Sequences, FiniteSets, TLC

VARIABLES
    view,               \* "user" (UserInterface) or "admin" (AdminInterface): the route
    availableModels,    \* Object.keys(client.models): what the backend is configured with
    phase,              \* "created" (useState defaults) or "mounted" (useEffect has run)
    subs,               \* the established, still open observeQuery subscriptions
    isLoading,
    modelExists,        \* admin view only
    debugInfo,          \* admin view only: the diagnostics recorded so far
    demos,
    demoTags,
    availableTags,
    searchTerm,
    selectedFilterTags,
    passes,             \* enrichment passes of demoTagSubscription.next awaiting Tag.get
    tagLoads,           \* loadTags calls awaiting Tag.list
    initTags,           \* initializeTags (admin): where it is awaiting
    beTags,             \* the backend's Tag collection
    events,             \* stream events delivered so far
    lastRel,            \* history: the most recently delivered DemoTag snapshot
    isFormOpen,         \* admin view: the demo form
    editingId,
    formData,
    selectedTags,
    isAddTagOpen,       \* admin view: the add-tag popup
    newTagName,
    addTagError,
    submits,            \* handleSubmit calls awaiting a backend call
    creates,            \* handleAddTag calls awaiting Tag.create
    deletes,            \* deleteDemo calls awaiting a backend call
    beDemos,            \* the backend's Demo collection
    beRels,             \* the backend's DemoTag collection
    made,               \* records the backend has created for the admin's handlers
    inputs              \* inputs the admin has made to the demo form

vars == <<view, availableModels, phase, subs, isLoading, modelExists, debugInfo,
          demos, demoTags, availableTags, searchTerm, selectedFilterTags,
          passes, tagLoads, initTags, beTags, events, lastRel,
          isFormOpen, editingId, formData, selectedTags,
          isAddTagOpen, newTagName, addTagError,
          submits, creates, deletes, beDemos, beRels, made, inputs>>

formVars == <<isFormOpen, editingId, formData, selectedTags>>
popupVars == <<isAddTagOpen, newTagName, addTagError>>
callVars == <<submits, creates, deletes>>
storeVars == <<beDemos, beRels, made>>
adminVars == <<formVars, popupVars, callVars, storeVars, inputs>>

localVars == <<isLoading, modelExists, debugInfo, demos, demoTags, availableTags>>
filterVars == <<searchTerm, selectedFilterTags>>
configVars == <<view, availableModels>>
historyVars == <<lastRel>>

----------------------------------------------------------------------------
(* Bounds of the model. *)

\* stream events (snapshots and errors) delivered in one run
MaxEvents == 2
\* enrichment passes in flight at once
MaxPasses == 2
\* records in one DemoTag snapshot
MaxRels == 2
\* records in one Demo snapshot
MaxDemos == 2
\* characters in a search term typed by the user
MaxTermLen == 2
\* enriched relationships the derived view is computed from
MaxJoined == 3
\* handleAddTag calls awaiting Tag.create at once
MaxCreates == 2
\* Tag.create calls handleAddTag issues in one run
MaxAdds == 2
\* handleSubmit calls awaiting a backend call at once
MaxSubmits == 2
\* Demo and DemoTag records the backend creates in one run
MaxMade == 3
\* inputs (clicks and changes of a field) the admin makes to the demo form in one run
MaxInputs == 4
\* deleteDemo calls awaiting a backend call at once
MaxDeletes == 2
\* records of the Tag collection the backend lists to a view that validates them
MaxTagRecs == 3

----------------------------------------------------------------------------
(* Values. *)

NULL == "<null>"
NoString == <<NULL>>

\* JavaScript truthiness of a nullable id, colour or link
TruthyId(x) == x # NULL /\ x # ""
\* JavaScript truthiness of a nullable string held as a character sequence
TruthyStr(s) == s # NoString /\ s # <<>>

UpperCase == <<"A","B","C","D","E","F","G","H","I","J","K","L","M",
               "N","O","P","Q","R","S","T","U","V","W","X","Y","Z">>
LowerCase == <<"a","b","c","d","e","f","g","h","i","j","k","l","m",
               "n","o","p","q","r","s","t","u","v","w","x","y","z">>

\* the lower-case letter of each upper-case letter
LowerOf ==
    [c \in {UpperCase[i] : i \in 1..Len(UpperCase)} |->
        LowerCase[CHOOSE i \in 1..Len(UpperCase) : UpperCase[i] = c]]

\* String.prototype.toLowerCase, one character
LowerChar(c) == IF c \in DOMAIN LowerOf THEN LowerOf[c] ELSE c

toLowerCase(s) == [i \in 1..Len(s) |-> LowerChar(s[i])]

\* String.prototype.includes: term occurs in s at some offset
includes(s, term) ==
    \E off \in 0..(Len(s) - Len(term)) :
        SubSeq(s, off + 1, off + Len(term)) = term

\* Array.prototype.filter on a sequence, by a set of kept indices
RECURSIVE FilterIdx(_, _, _)
FilterIdx(s, keep, i) ==
    IF i > Len(s) THEN <<>>
    ELSE IF i \in keep THEN <<s[i]>> \o FilterIdx(s, keep, i + 1)
    ELSE FilterIdx(s, keep, i + 1)

\* Array.prototype.includes / some on a sequence
Range(s) == {s[i] : i \in 1..Len(s)}

\* the subsequences of s of length at most n, each in the order of s
RECURSIVE SubSeqsFrom(_, _, _)
SubSeqsFrom(s, i, n) ==
    IF i > Len(s) \/ n = 0 THEN {<<>>}
    ELSE SubSeqsFrom(s, i + 1, n)
         \cup {<<s[i]>> \o t : t \in SubSeqsFrom(s, i + 1, n - 1)}

----------------------------------------------------------------------------
(* The records the backend can hold or deliver. *)

\* the 10 predefined colours
TAG_COLORS == <<"#e74c3c", "#3498db", "#2ecc71", "#9b59b6", "#f39c12",
                "#1abc9c", "#e67e22", "#34495e", "#27ae60", "#8e44ad">>

\* the fallback of `tag.color || ...` in each view
DefaultColor(v) == IF v = "user" THEN "#f89520" ELSE TAG_COLORS[1]

Games == <<"G","a","m","e","s">>
ML == <<"M","L">>
Analytics == <<"A","n","a","l","y","t","i","c","s">>
MandE == <<"M","&","E">>
GenerativeAI == <<"G","e","n","e","r","a","t","i","v","e"," ","A","I">>

\* predefinedTags of initializeTags
predefinedTags == <<[name |-> Games, color |-> TAG_COLORS[1]],
                    [name |-> ML, color |-> TAG_COLORS[2]],
                    [name |-> Analytics, color |-> TAG_COLORS[3]],
                    [name |-> MandE, color |-> TAG_COLORS[4]],
                    [name |-> GenerativeAI, color |-> TAG_COLORS[5]]>>

Tag(id, name, color) == [id |-> id, name |-> name, color |-> color]

\* the ids the backend gives to created tags, in order of creation
TagIdPool == <<"t1", "t2", "t3", "t4", "t5", "t6", "t7", "t8", "t9", "t10",
               "t11", "t12", "t13", "t14">>

\* the Tag collection a run can start from: a fresh backend, or one that holds a
\* valid tag, a tag without a name, a tag without a colour and a tag without an id
TagConfigs ==
    { <<>>,
      <<Tag("t1", Games, TAG_COLORS[1]), Tag("t2", NoString, TAG_COLORS[2]),
        Tag("t3", ML, NULL), Tag(NULL, Analytics, TAG_COLORS[3])>> }

Demo(id, name, n) ==
    [id |-> id, projectName |-> name, githubLink |-> "gh" \o n,
     projectLink |-> "live" \o n, imageUrl |-> NULL,
     createdAt |-> "c" \o n, updatedAt |-> "u" \o n]

Alpha == <<"A","l","p","h","a">>
RoboTax == <<"R","o","b","o","T","a","x">>

\* the Demo records a snapshot can hold, in the backend's listing order: a named
\* demo and one without a display name
DemoRecords == <<Demo("d1", Alpha, "1"), Demo("d2", NoString, "2")>>

Rel(id, demoId, tagId) == [id |-> id, demoId |-> demoId, tagId |-> tagId]

\* the DemoTag records a snapshot can hold, in the backend's listing order, two of
\* them with an absent reference
RelRecords == <<Rel("r1", "d1", "t1"), Rel("r2", "d2", "t2"),
                Rel("r3", "d1", NULL), Rel("r4", NULL, "t1")>>

DemoSnapshots == SubSeqsFrom(DemoRecords, 1, MaxDemos)
RelSnapshots == SubSeqsFrom(RelRecords, 1, MaxRels)

----------------------------------------------------------------------------
(* The pure parts of the handlers. *)

\* typedItems that keeps only the records with an id and a display name
typedItemsValidated(items) ==
    FilterIdx(items, {i \in 1..Len(items) : /\ TruthyId(items[i].id)
                                            /\ TruthyStr(items[i].projectName)}, 1)

\* typedItems that lists the records back to front
typedItemsReversed(items) == [i \in 1..Len(items) |-> items[Len(items) + 1 - i]]

\* demoSubscription.next: data.items.map(item => ({id: item.id, ...}))
typedItems(items) ==
    [i \in 1..Len(items) |->
        [id |-> items[i].id, projectName |-> items[i].projectName,
         githubLink |-> items[i].githubLink, projectLink |-> items[i].projectLink,
         imageUrl |-> items[i].imageUrl, createdAt |-> items[i].createdAt,
         updatedAt |-> items[i].updatedAt]]

\* IsValidTag that tests the id alone
IsValidTagById(tag) == TruthyId(tag.id)

\* tag => tag && tag.id && tag.name
IsValidTag(tag) == TruthyId(tag.id) /\ TruthyStr(tag.name)

\* a filter that splices the invalid records out of the array while it walks it
\* forward, so that the record after a removed one is never tested
RECURSIVE SpliceInvalid(_, _)
SpliceInvalid(items, i) ==
    IF i > Len(items) THEN items
    ELSE IF IsValidTag(items[i]) THEN SpliceInvalid(items, i + 1)
    ELSE SpliceInvalid(SubSeq(items, 1, i - 1) \o SubSeq(items, i + 1, Len(items)),
                       i + 1)

\* validTags with that filter
validTagsSpliced(items, v) ==
    LET kept == SpliceInvalid(items, 1)
    IN  [i \in 1..Len(kept) |->
            [id |-> kept[i].id,
             name |-> IF TruthyStr(kept[i].name) THEN kept[i].name ELSE <<>>,
             color |-> IF TruthyId(kept[i].color) THEN kept[i].color
                       ELSE DefaultColor(v)]]

\* .filter(tag => tag && tag.id && tag.name).map(tag => ({id, name || "", color || default}))
validTags(items, v) ==
    LET kept == FilterIdx(items, {i \in 1..Len(items) : IsValidTag(items[i])}, 1)
    IN  [i \in 1..Len(kept) |->
            [id |-> kept[i].id,
             name |-> IF TruthyStr(kept[i].name) THEN kept[i].name ELSE <<>>,
             color |-> IF TruthyId(kept[i].color) THEN kept[i].color
                       ELSE DefaultColor(v)]]

\* HasRefs that tests the tag reference alone
HasTagRef(item) == TruthyId(item.tagId)

\* the test `!item || !item.tagId || !item.demoId` of the enrichment loop, negated
HasRefs(item) == TruthyId(item.tagId) /\ TruthyId(item.demoId)

\* the loop of demoTagSubscription.next runs on from item k without yielding until
\* it reaches an item it has to await Tag.get for: that item's index, or
\* Len(items) + 1 when the loop runs to its end
RECURSIVE NextAwait(_, _)
NextAwait(items, k) ==
    IF k > Len(items) THEN k
    ELSE IF HasRefs(items[k]) THEN k
    ELSE NextAwait(items, k + 1)

\* data: null of a response
NoRecord == Tag(NULL, NoString, NULL)

\* client.models.Tag.get({id}) on the backend collection
TagGet(tags, id) ==
    IF \E i \in 1..Len(tags) : tags[i].id = id
    THEN tags[CHOOSE i \in 1..Len(tags) :
                /\ tags[i].id = id
                /\ \A j \in 1..(i - 1) : tags[j].id # id]
    ELSE NoRecord

\* IsResolved that tests the id alone
IsResolvedById(resp) == TruthyId(resp.id)

\* tagResponse.data && tagResponse.data.id && tagResponse.data.name
IsResolved(resp) == TruthyId(resp.id) /\ TruthyStr(resp.name)

\* the record pushed to enrichedDemoTags
Enriched(item, resp, v) ==
    [id |-> item.id, demoId |-> item.demoId, tagId |-> item.tagId,
     tag |-> [id |-> resp.id,
              name |-> IF TruthyStr(resp.name) THEN resp.name ELSE <<>>,
              color |-> IF TruthyId(resp.color) THEN resp.color
                        ELSE DefaultColor(v)]]

----------------------------------------------------------------------------
(* The state after construction: the useState defaults, before useEffect.   *)

Idle == [pc |-> "idle", i |-> 0]

\* the formData of useState and of the resets
emptyForm == [projectName |-> <<>>, githubLink |-> "", projectLink |-> "", imageUrl |-> ""]

\* the useState defaults of the admin view's form
FormIdle ==
    /\ isFormOpen = FALSE
    /\ editingId = NULL
    /\ formData = emptyForm
    /\ selectedTags = <<>>

\* the useState defaults of the add-tag popup
PopupIdle ==
    /\ isAddTagOpen = FALSE
    /\ newTagName = <<>>
    /\ addTagError = FALSE

\* no handler of the admin view has been called
NothingInFlight ==
    /\ submits = <<>>
    /\ creates = <<>>
    /\ deletes = <<>>
    /\ made = 0
    /\ inputs = 0

AdminIdle == FormIdle /\ PopupIdle /\ NothingInFlight

LocalInit ==
    /\ phase = "created"
    /\ subs = {}
    /\ isLoading = TRUE
    /\ modelExists = FALSE
    /\ debugInfo = {}
    /\ demos = <<>>
    /\ demoTags = <<>>
    /\ availableTags = <<>>
    /\ searchTerm = <<>>
    /\ selectedFilterTags = <<>>
    /\ passes = <<>>
    /\ tagLoads = 0
    /\ initTags = Idle
    /\ events = 0
    /\ lastRel = <<>>

Init ==
    /\ view \in {"user", "admin"}
    /\ availableModels \in SUBSET {"Demo", "Tag", "DemoTag"}
    /\ beTags \in TagConfigs
    /\ beDemos = DemoRecords
    /\ beRels = RelRecords
    /\ LocalInit
    /\ AdminIdle

----------------------------------------------------------------------------
(* useEffect: the check of the available models and the subscriptions.     *)

\* the subscriptions established before the set-up returns or throws: Demo, Tag,
\* then DemoTag, whose observeQuery throws when the model does not exist
Established(models) ==
    IF "DemoTag" \in models THEN {"Demo", "Tag", "DemoTag"} ELSE {"Demo", "Tag"}

UserMount ==
    /\ view = "user"
    /\ phase = "created"
    /\ phase' = "mounted"
    /\ IF "Demo" \in availableModels /\ "Tag" \in availableModels
       THEN /\ subs' = Established(availableModels)
            \* loadTags(): at the end of the set-up, or in its catch
            /\ tagLoads' = tagLoads + 1
            /\ isLoading' = IF "DemoTag" \in availableModels THEN isLoading ELSE FALSE
       ELSE /\ subs' = {}
            /\ tagLoads' = tagLoads
            /\ isLoading' = FALSE
    /\ UNCHANGED <<modelExists, debugInfo, demos, demoTags, availableTags>>
    /\ UNCHANGED <<filterVars, configVars, adminVars, historyVars, passes, initTags, beTags, events>>

AdminMount ==
    /\ view = "admin"
    /\ phase = "created"
    /\ phase' = "mounted"
    /\ IF "Demo" \in availableModels /\ "Tag" \in availableModels
       THEN /\ modelExists' = TRUE
            \* initializeTags() runs to its first await, Tag.list
            /\ initTags' = [pc |-> "list1", i |-> 0]
            /\ subs' = Established(availableModels)
            /\ IF "DemoTag" \in availableModels
               THEN UNCHANGED <<debugInfo, isLoading>>
               ELSE /\ debugInfo' = debugInfo \cup {"Error setting up Demo subscription"}
                    /\ isLoading' = FALSE
       ELSE /\ debugInfo' = debugInfo \cup {"Demo or Tag models don't exist yet!"}
            /\ modelExists' = FALSE
            /\ isLoading' = FALSE
            /\ subs' = {}
            /\ initTags' = initTags
    /\ UNCHANGED <<demos, demoTags, availableTags, tagLoads>>
    /\ UNCHANGED <<filterVars, configVars, adminVars, historyVars, passes, beTags, events>>

\* the effect returned its cleanup function: the set-up ran to the end of its try
\* block, which it does not when the models are missing or an observeQuery throws
CleanupReturned(models) == {"Demo", "Tag", "DemoTag"} \subseteq models

\* the view is dismounted: React calls the cleanup function the effect returned,
\* which unsubscribes the three subscriptions
Unmount ==
    /\ phase = "mounted"
    /\ phase' = "unmounted"
    /\ subs' = IF CleanupReturned(availableModels) THEN {} ELSE subs
    /\ UNCHANGED <<localVars, tagLoads>>
    /\ UNCHANGED <<filterVars, configVars, adminVars, historyVars, passes, initTags,
                   beTags, events>>

----------------------------------------------------------------------------
(* The Demo subscription. *)

demoSubscriptionNext(items) ==
    /\ "Demo" \in subs
    /\ events < MaxEvents
    /\ events' = events + 1
    /\ demos' = typedItems(items)
    /\ isLoading' = FALSE
    /\ UNCHANGED <<phase, subs, modelExists, debugInfo, demoTags, availableTags>>
    /\ UNCHANGED <<filterVars, configVars, adminVars, historyVars, passes, tagLoads, initTags, beTags>>

\* an error ends the stream
demoSubscriptionError ==
    /\ "Demo" \in subs
    /\ events < MaxEvents
    /\ events' = events + 1
    /\ subs' = subs \ {"Demo"}
    /\ isLoading' = FALSE
    /\ debugInfo' = IF view = "admin"
                    THEN debugInfo \cup {"Error in Demo subscription"}
                    ELSE debugInfo
    /\ UNCHANGED <<phase, modelExists, demos, demoTags, availableTags>>
    /\ UNCHANGED <<filterVars, configVars, adminVars, historyVars, passes, tagLoads, initTags, beTags>>

----------------------------------------------------------------------------
(* The Tag subscription and the one-shot fetch loadTags. *)

\* a snapshot holds the backend's Tag collection as it is when delivered
tagSubscriptionNext ==
    /\ "Tag" \in subs
    /\ events < MaxEvents
    /\ events' = events + 1
    /\ availableTags' = validTags(beTags, view)
    /\ UNCHANGED <<phase, subs, isLoading, modelExists, debugInfo, demos, demoTags>>
    /\ UNCHANGED <<filterVars, configVars, adminVars, historyVars, passes, tagLoads, initTags, beTags>>

\* the public view falls back to loadTags(), which runs to its await of Tag.list
userTagSubscriptionError ==
    /\ view = "user"
    /\ tagLoads' = tagLoads + 1
    /\ debugInfo' = debugInfo

\* the admin view records the error
adminTagSubscriptionError ==
    /\ view = "admin"
    /\ tagLoads' = tagLoads
    /\ debugInfo' = debugInfo \cup {"Error in Tag subscription"}

tagSubscriptionError ==
    /\ "Tag" \in subs
    /\ events < MaxEvents
    /\ events' = events + 1
    /\ subs' = subs \ {"Tag"}
    /\ IF view = "user" THEN userTagSubscriptionError ELSE adminTagSubscriptionError
    /\ UNCHANGED <<phase, isLoading, modelExists, demos, demoTags, availableTags>>
    /\ UNCHANGED <<filterVars, configVars, adminVars, historyVars, passes, initTags, beTags>>

\* what an awaited Tag.list can do: answer with the collection, answer with no data,
\* or throw
ListOutcomes == {"data", "nodata", "throw"}

\* loadTags after its await: setAvailableTags(validTags) on data, else setAvailableTags([])
loadTagsResult(outcome, tags, v) ==
    IF outcome = "data" THEN validTags(tags, v) ELSE <<>>

loadTagsReturns(outcome) ==
    /\ tagLoads > 0
    /\ tagLoads' = tagLoads - 1
    /\ availableTags' = loadTagsResult(outcome, beTags, view)
    /\ UNCHANGED <<phase, subs, isLoading, modelExists, debugInfo, demos, demoTags>>
    /\ UNCHANGED <<filterVars, configVars, adminVars, historyVars, passes, initTags, beTags, events>>

----------------------------------------------------------------------------
(* The DemoTag subscription: the enrichment passes. *)

\* what an awaited Tag.get can do: answer (with the record or with data: null) or throw
Skipped == [kind |-> "skipped", data |-> NoRecord]
Threw == [kind |-> "threw", data |-> NoRecord]
Answered(resp) == [kind |-> "answered", data |-> resp]

\* the items from index a to b - 1, each skipped by `continue`
SkippedRun(a, b) == [i \in 1..(b - a) |-> Skipped]

\* the diagnostics of the admin view's loop for the lookups `got`
PassDiagnostics(got) ==
    {"Skipping invalid DemoTag item" : i \in {i \in 1..Len(got) : got[i].kind = "skipped"}}
    \cup {"Error fetching tag" : i \in {i \in 1..Len(got) : got[i].kind = "threw"}}
    \cup {"Tag not found or invalid" :
            i \in {i \in 1..Len(got) : got[i].kind = "answered"
                                        /\ ~IsResolved(got[i].data)}}

\* a pass from the start of the handler to its first await (k <= Len(items)) or to
\* its end (k = Len(items) + 1)
startPass(items) ==
    LET j == NextAwait(items, 1)
    IN  [items |-> items, k |-> j, out |-> <<>>, got |-> SkippedRun(1, j)]

\* a pass from the answer to its pending Tag.get to its next await or to its end
resumePass(pass, answer, v) ==
    LET item == pass.items[pass.k]
        j == NextAwait(pass.items, pass.k + 1)
    IN  [items |-> pass.items,
         k |-> j,
         out |-> IF answer.kind = "answered" /\ IsResolved(answer.data)
                 THEN Append(pass.out, Enriched(item, answer.data, v))
                 ELSE pass.out,
         got |-> Append(pass.got, answer) \o SkippedRun(pass.k + 1, j)]

PassDone(pass) == pass.k > Len(pass.items)

RemoveAt(s, p) == SubSeq(s, 1, p - 1) \o SubSeq(s, p + 1, Len(s))

\* the end of a pass, setDemoTags(enrichedDemoTags), or its next await
settlePass(pass, rest, waiting) ==
    /\ IF PassDone(pass)
       THEN /\ demoTags' = pass.out
            /\ passes' = rest
       ELSE /\ passes' = waiting
            /\ UNCHANGED demoTags
    /\ debugInfo' = IF view = "admin"
                    THEN debugInfo \cup PassDiagnostics(pass.got)
                    ELSE debugInfo

demoTagSubscriptionNext(items) ==
    /\ "DemoTag" \in subs
    /\ events < MaxEvents
    /\ PassDone(startPass(items)) \/ Len(passes) < MaxPasses
    /\ events' = events + 1
    /\ settlePass(startPass(items), passes, Append(passes, startPass(items)))
    /\ lastRel' = items
    /\ UNCHANGED <<phase, subs, isLoading, modelExists, demos, availableTags>>
    /\ UNCHANGED <<filterVars, configVars, adminVars, tagLoads, initTags, beTags>>

\* every answer a Tag.get can settle with
TagGetOutcomes == {Threw} \cup {Answered(t) : t \in Range(beTags) \cup {NoRecord}}

\* the answer of the backend to Tag.get for the item pass p awaits
TagGetAnswers(pass) ==
    {Threw, Answered(TagGet(beTags, pass.items[pass.k].tagId))}

tagGetReturns(p, answer) ==
    /\ p \in 1..Len(passes)
    /\ answer \in TagGetAnswers(passes[p])
    /\ LET pass == resumePass(passes[p], answer, view)
       IN  settlePass(pass, RemoveAt(passes, p), [passes EXCEPT ![p] = pass])
    /\ UNCHANGED <<phase, subs, isLoading, modelExists, demos, availableTags, lastRel>>
    /\ UNCHANGED <<filterVars, configVars, adminVars, tagLoads, initTags, beTags, events>>

demoTagSubscriptionError ==
    /\ "DemoTag" \in subs
    /\ events < MaxEvents
    /\ events' = events + 1
    /\ subs' = subs \ {"DemoTag"}
    /\ debugInfo' = IF view = "admin"
                    THEN debugInfo \cup {"Error in DemoTag subscription"}
                    ELSE debugInfo
    /\ UNCHANGED <<phase, isLoading, modelExists, demos, demoTags, availableTags>>
    /\ UNCHANGED <<filterVars, configVars, adminVars, historyVars, passes, tagLoads, initTags, beTags>>

----------------------------------------------------------------------------
(* initializeTags of the admin view. *)

\* the id the backend gives to the next created tag
FreshTagId(tags) ==
    TagIdPool[CHOOSE i \in 1..Len(TagIdPool) :
                /\ \A j \in 1..Len(tags) : tags[j].id # TagIdPool[i]
                /\ \A h \in 1..(i - 1) : \E j \in 1..Len(tags) : tags[j].id = TagIdPool[h]]

\* Tag.create on the backend collection
TagCreate(tags, name, color) == Append(tags, Tag(FreshTagId(tags), name, color))

InitDone == [pc |-> "done", i |-> 0]
InitFailed == "Error initializing tags"

\* the first Tag.list answers: seed an empty collection, else go on to the fetch
initializeTagsChecked(outcome) ==
    /\ initTags.pc = "list1"
    /\ outcome \in ListOutcomes
    /\ IF outcome = "throw"
       THEN /\ initTags' = InitDone
            /\ debugInfo' = debugInfo \cup {InitFailed}
       ELSE /\ initTags' = IF outcome = "data" /\ Len(beTags) = 0
                           THEN [pc |-> "create", i |-> 1]
                           ELSE [pc |-> "list2", i |-> 0]
            /\ debugInfo' = debugInfo
    /\ UNCHANGED <<phase, subs, isLoading, modelExists, demos, demoTags, availableTags>>
    /\ UNCHANGED <<filterVars, configVars, adminVars, historyVars, passes, tagLoads, beTags, events>>

\* Tag.create for predefinedTags[i] answers or throws
initializeTagsCreated(throws) ==
    /\ initTags.pc = "create"
    /\ throws \in BOOLEAN
    /\ IF throws
       THEN /\ initTags' = InitDone
            /\ debugInfo' = debugInfo \cup {InitFailed}
            /\ beTags' = beTags
       ELSE /\ beTags' = TagCreate(beTags, predefinedTags[initTags.i].name,
                                   predefinedTags[initTags.i].color)
            /\ IF initTags.i < Len(predefinedTags)
               THEN /\ initTags' = [pc |-> "create", i |-> initTags.i + 1]
                    /\ debugInfo' = debugInfo
               ELSE /\ initTags' = [pc |-> "list2", i |-> 0]
                    /\ debugInfo' = debugInfo \cup {"Predefined tags created"}
    /\ UNCHANGED <<phase, subs, isLoading, modelExists, demos, demoTags, availableTags>>
    /\ UNCHANGED <<filterVars, configVars, adminVars, historyVars, passes, tagLoads, events>>

\* the second Tag.list answers: setAvailableTags(validTags) when there is data
initializeTagsFetched(outcome) ==
    /\ initTags.pc = "list2"
    /\ outcome \in ListOutcomes
    /\ initTags' = InitDone
    /\ availableTags' = IF outcome = "data" THEN validTags(beTags, view)
                        ELSE availableTags
    /\ debugInfo' = IF outcome = "throw" THEN debugInfo \cup {InitFailed}
                    ELSE debugInfo
    /\ UNCHANGED <<phase, subs, isLoading, modelExists, demos, demoTags>>
    /\ UNCHANGED <<filterVars, configVars, adminVars, historyVars, passes, tagLoads, beTags, events>>

----------------------------------------------------------------------------
(* The synchronisation of one mounted view with the backend's streams. *)

Next ==
    \/ UserMount
    \/ AdminMount
    \/ \E items \in DemoSnapshots : demoSubscriptionNext(items)
    \/ demoSubscriptionError
    \/ tagSubscriptionNext
    \/ tagSubscriptionError
    \/ \E outcome \in ListOutcomes : loadTagsReturns(outcome)
    \/ \E items \in RelSnapshots : demoTagSubscriptionNext(items)
    \/ \E p \in 1..MaxPasses : \E answer \in TagGetOutcomes : tagGetReturns(p, answer)
    \/ demoTagSubscriptionError
    \/ \E outcome \in ListOutcomes : initializeTagsChecked(outcome)
    \/ \E throws \in BOOLEAN : initializeTagsCreated(throws)
    \/ \E outcome \in ListOutcomes : initializeTagsFetched(outcome)

Spec == Init /\ [][Next]_vars

----------------------------------------------------------------------------
(* The add-tag popup of the admin view: getNextAvailableColor, handleAddTag. *)

\* String.prototype.trim: the leading and the trailing spaces removed
RECURSIVE trimStart(_)
trimStart(s) == IF Len(s) > 0 /\ s[1] = " " THEN trimStart(Tail(s)) ELSE s

RECURSIVE trimEnd(_)
trimEnd(s) ==
    IF Len(s) > 0 /\ s[Len(s)] = " " THEN trimEnd(SubSeq(s, 1, Len(s) - 1)) ELSE s

trim(s) == trimEnd(trimStart(s))

\* getNextAvailableColor that takes the last colour still available
getNextAvailableColorLast(tags) ==
    LET usedColors == {tags[i].color : i \in 1..Len(tags)}
        availableColors ==
            FilterIdx(TAG_COLORS, {i \in 1..Len(TAG_COLORS) : TAG_COLORS[i] \notin usedColors}, 1)
    IN  IF Len(availableColors) > 0 THEN availableColors[Len(availableColors)]
        ELSE TAG_COLORS[1]

\* usedColors = availableTags.map(tag => tag.color);
\* availableColors = TAG_COLORS.filter(color => !usedColors.includes(color));
\* availableColors.length > 0 ? availableColors[0] : TAG_COLORS[0]
getNextAvailableColor(tags) ==
    LET usedColors == {tags[i].color : i \in 1..Len(tags)}
        availableColors ==
            FilterIdx(TAG_COLORS, {i \in 1..Len(TAG_COLORS) : TAG_COLORS[i] \notin usedColors}, 1)
    IN  IF Len(availableColors) > 0 THEN availableColors[1] ELSE TAG_COLORS[1]

\* tagExists comparing with the name as typed, not trimmed
tagExistsUntrimmed(tags, proposed) ==
    \E i \in 1..Len(tags) : toLowerCase(tags[i].name) = toLowerCase(proposed)

\* availableTags.some(tag => tag.name.toLowerCase() === newTagName.trim().toLowerCase())
tagExists(tags, proposed) ==
    \E i \in 1..Len(tags) : toLowerCase(tags[i].name) = toLowerCase(trim(proposed))

\* the "+ Add new tag" button of the form: setIsAddTagOpen(true)
openAddTag ==
    /\ view = "admin" /\ phase = "mounted" /\ ~isLoading
    /\ isFormOpen
    /\ isAddTagOpen' = TRUE
    /\ UNCHANGED <<newTagName, addTagError, formVars, callVars, storeVars>>
    /\ UNCHANGED <<phase, subs, localVars, filterVars, configVars, historyVars,
                   passes, tagLoads, initTags, beTags, events, inputs>>

\* setNewTagName(e.target.value); if (addTagError) setAddTagError(false)
handleNewTagChange(value) ==
    /\ view = "admin" /\ isAddTagOpen
    /\ newTagName' = value
    /\ addTagError' = FALSE
    /\ UNCHANGED <<isAddTagOpen, formVars, callVars, storeVars>>
    /\ UNCHANGED <<phase, subs, localVars, filterVars, configVars, historyVars,
                   passes, tagLoads, initTags, beTags, events, inputs>>

\* the popup's state after Cancel and after a create that answered
popupClosed ==
    /\ isAddTagOpen' = FALSE
    /\ newTagName' = <<>>
    /\ addTagError' = FALSE

\* the Cancel button of the popup
cancelAddTag ==
    /\ view = "admin" /\ isAddTagOpen
    /\ popupClosed
    /\ UNCHANGED <<formVars, callVars, storeVars>>
    /\ UNCHANGED <<phase, subs, localVars, filterVars, configVars, historyVars,
                   passes, tagLoads, initTags, beTags, events, inputs>>

\* a handleAddTag call at its await of Tag.create({name, color: nextColor})
AddTagCall(name, nextColor) ==
    [name |-> name, color |-> nextColor, pc |-> "sent", data |-> NoRecord]

\* handleAddTag up to its await: the two early returns, else Tag.create is issued
handleAddTag ==
    /\ view = "admin" /\ isAddTagOpen
    /\ UNCHANGED <<events, initTags, isAddTagOpen, newTagName, debugInfo, beTags>>
    /\ UNCHANGED <<availableTags, isLoading, modelExists, demos, demoTags>>
    /\ UNCHANGED <<phase, subs, filterVars, configVars, historyVars, passes, tagLoads,
                   inputs, formVars, submits, deletes, beDemos, beRels>>
    /\ IF ~TruthyStr(trim(newTagName)) \/ tagExists(availableTags, newTagName)
       THEN /\ addTagError' = TRUE
            /\ UNCHANGED <<creates, made>>
       ELSE /\ Len(creates) < MaxCreates
            /\ made < MaxAdds
            /\ creates' = Append(creates,
                                 AddTagCall(trim(newTagName),
                                            getNextAvailableColor(availableTags)))
            /\ made' = made + 1
            /\ UNCHANGED addTagError

\* the backend applies the Tag.create of call c; its answer is still under way
tagCreateApplied(c) ==
    /\ c \in 1..Len(creates)
    /\ creates[c].pc = "sent"
    /\ beTags' = TagCreate(beTags, creates[c].name, creates[c].color)
    /\ creates' = [creates EXCEPT ![c].pc = "applied",
                                  ![c].data = Tag(FreshTagId(beTags), creates[c].name,
                                                  creates[c].color)]
    /\ UNCHANGED <<formVars, popupVars, submits, deletes, storeVars>>
    /\ UNCHANGED <<phase, subs, localVars, filterVars, configVars, historyVars,
                   passes, tagLoads, initTags, events, inputs>>

\* what the awaited Tag.create can do: answer with the created record, answer with
\* no data, or throw
CreateOutcomes == {"record", "norecord", "throw"}

\* the tag handleAddTag appends: {id, name || "", color || nextColor}
AddedTag(call) ==
    [id |-> call.data.id,
     name |-> IF TruthyStr(call.data.name) THEN call.data.name ELSE <<>>,
     color |-> IF TruthyId(call.data.color) THEN call.data.color ELSE call.color]

\* handleAddTag after its await
tagCreateReturns(c, outcome) ==
    /\ c \in 1..Len(creates)
    /\ outcome \in CreateOutcomes
    /\ outcome = "record" => creates[c].pc = "applied"
    /\ outcome = "norecord" => creates[c].pc = "sent"
    /\ creates' = RemoveAt(creates, c)
    /\ IF outcome = "throw"
       THEN /\ debugInfo' = debugInfo \cup {"Error creating tag"}
            /\ addTagError' = TRUE
            /\ UNCHANGED <<availableTags, isAddTagOpen, newTagName>>
       ELSE /\ availableTags' = IF outcome = "record" /\ TruthyId(creates[c].data.id)
                                THEN Append(availableTags, AddedTag(creates[c]))
                                ELSE availableTags
            /\ popupClosed
            /\ UNCHANGED debugInfo
    /\ UNCHANGED <<formVars, submits, deletes, storeVars>>
    /\ UNCHANGED <<phase, subs, isLoading, modelExists, demos, demoTags>>
    /\ UNCHANGED <<filterVars, configVars, historyVars, passes, tagLoads, initTags,
                   beTags, events, inputs>>

----------------------------------------------------------------------------
(* The derived view: getTagInfo, getFilteredDemos and the filter handlers. *)

\* getTagInfo (getTagNames in the admin view): the tags shown on a demo's card
getTagInfo(demo) ==
    LET own == FilterIdx(demoTags,
                         {i \in 1..Len(demoTags) : demoTags[i].demoId = demo.id}, 1)
    IN  [i \in 1..Len(own) |-> [name |-> own[i].tag.name, color |-> own[i].tag.color]]

\* matchesSearch comparing without toLowerCase
matchesSearchCaseSensitive(demo, term) ==
    \/ ~TruthyStr(term)
    \/ /\ TruthyStr(demo.projectName)
       /\ includes(demo.projectName, term)

\* !searchTerm || (demo.projectName &&
\*     demo.projectName.toLowerCase().includes(searchTerm.toLowerCase()))
matchesSearch(demo, term) ==
    \/ ~TruthyStr(term)
    \/ /\ TruthyStr(demo.projectName)
       /\ includes(toLowerCase(demo.projectName), toLowerCase(term))

\* matchesTags with `some` in place of `every`: a disjunctive filter
matchesTagsAny(demo, selected, joined) ==
    \/ Len(selected) = 0
    \/ \E s \in 1..Len(selected) :
          \E i \in 1..Len(joined) :
              joined[i].demoId = demo.id /\ joined[i].tagId = selected[s]

\* selectedFilterTags.length === 0 || selectedFilterTags.every(filterTagId =>
\*     demoTags.some(dt => dt.demoId === demo.id && dt.tagId === filterTagId))
matchesTags(demo, selected, joined) ==
    \/ Len(selected) = 0
    \/ \A s \in 1..Len(selected) :
          \E i \in 1..Len(joined) :
              joined[i].demoId = demo.id /\ joined[i].tagId = selected[s]

\* filterDemos that builds its result back to front (unshift for push)
filterDemosReversed(list, term, selected, joined) ==
    LET kept == FilterIdx(list, {i \in 1..Len(list) :
                                    /\ matchesSearch(list[i], term)
                                    /\ matchesTags(list[i], selected, joined)}, 1)
    IN  [r \in 1..Len(kept) |-> kept[Len(kept) + 1 - r]]

\* demos.filter(demo => matchesSearch && matchesTags)
filterDemos(list, term, selected, joined) ==
    FilterIdx(list, {i \in 1..Len(list) : /\ matchesSearch(list[i], term)
                                          /\ matchesTags(list[i], selected, joined)}, 1)

getFilteredDemos == filterDemos(demos, searchTerm, selectedFilterTags, demoTags)

\* toggleTag that appends the id whether or not it is selected
toggleTagAppending(prev, tagId) == Append(prev, tagId)

\* prev.includes(tagId) ? prev.filter(id => id !== tagId) : [...prev, tagId]
toggleTag(prev, tagId) ==
    IF tagId \in Range(prev)
    THEN FilterIdx(prev, {i \in 1..Len(prev) : prev[i] # tagId}, 1)
    ELSE Append(prev, tagId)

handleFilterTagToggle(tagId) ==
    /\ phase = "mounted"
    /\ selectedFilterTags' = toggleTag(selectedFilterTags, tagId)
    /\ UNCHANGED <<searchTerm, phase, subs, localVars, configVars, adminVars, historyVars,
                   passes, tagLoads, initTags, beTags, events>>

clearAllFilters ==
    /\ phase = "mounted"
    /\ searchTerm' = <<>>
    /\ selectedFilterTags' = <<>>
    /\ UNCHANGED <<phase, subs, localVars, configVars, adminVars, historyVars,
                   passes, tagLoads, initTags, beTags, events>>

\* setSearchTerm(e.target.value)
handleSearchChange(value) ==
    /\ phase = "mounted"
    /\ searchTerm' = value
    /\ UNCHANGED <<selectedFilterTags, phase, subs, localVars, configVars, adminVars, historyVars,
                   passes, tagLoads, initTags, beTags, events>>

----------------------------------------------------------------------------
(* The demo form of the admin view: the form handlers and handleSubmit.     *)

\* x.trim() === "" for a link or an image URL, which are atomic: the blank ones
\* are the empty string and a space
IsBlank(x) == x \in {"", " "}

\* validateForm: no field is blank and a tag is selected
validateForm(form, selected) ==
    /\ trim(form.projectName) # <<>>
    /\ ~IsBlank(form.githubLink)
    /\ ~IsBlank(form.projectLink)
    /\ ~IsBlank(form.imageUrl)
    /\ Len(selected) > 0

\* the "+ Add Project" buttons: setIsFormOpen(true)
openForm ==
    /\ inputs < MaxInputs
    /\ inputs' = inputs + 1
    /\ view = "admin" /\ phase = "mounted"
    /\ isFormOpen' = TRUE
    /\ UNCHANGED <<editingId, formData, selectedTags, popupVars, callVars, storeVars>>
    /\ UNCHANGED <<phase, subs, localVars, filterVars, configVars, historyVars,
                   passes, tagLoads, initTags, beTags, events>>

\* the formData of openEditForm: {projectName: demo.projectName || "", ...}
editFormData(demo) ==
    [projectName |-> IF TruthyStr(demo.projectName) THEN demo.projectName ELSE <<>>,
     githubLink |-> IF TruthyId(demo.githubLink) THEN demo.githubLink ELSE "",
     projectLink |-> IF TruthyId(demo.projectLink) THEN demo.projectLink ELSE "",
     imageUrl |-> IF TruthyId(demo.imageUrl) THEN demo.imageUrl ELSE ""]

\* currentTagIds that takes the tag of every relationship
currentTagIdsOfAll(joined, demo) == [i \in 1..Len(joined) |-> joined[i].tagId]

\* demoTags.filter(dt => dt.demoId === demo.id).map(dt => dt.tagId)
currentTagIds(joined, demo) ==
    LET own == FilterIdx(joined, {i \in 1..Len(joined) : joined[i].demoId = demo.id}, 1)
    IN  [i \in 1..Len(own) |-> own[i].tagId]

\* the Edit button of a demo's card: demo.id && openEditForm(demo)
openEditForm(demo) ==
    /\ inputs < MaxInputs
    /\ inputs' = inputs + 1
    /\ view = "admin" /\ phase = "mounted" /\ ~isLoading
    /\ demo \in Range(getFilteredDemos)
    /\ TruthyId(demo.id)
    /\ formData' = editFormData(demo)
    /\ selectedTags' = currentTagIds(demoTags, demo)
    /\ editingId' = demo.id
    /\ isFormOpen' = TRUE
    /\ UNCHANGED <<popupVars, callVars, storeVars>>
    /\ UNCHANGED <<phase, subs, localVars, filterVars, configVars, historyVars,
                   passes, tagLoads, initTags, beTags, events>>

FormFields == {"projectName", "githubLink", "projectLink", "imageUrl"}

\* setFormData(prev => ({...prev, [name]: value}))
handleChange(name, value) ==
    /\ inputs < MaxInputs
    /\ inputs' = inputs + 1
    /\ view = "admin" /\ isFormOpen /\ ~isLoading
    /\ name \in FormFields
    /\ formData' = [formData EXCEPT ![name] = value]
    /\ UNCHANGED <<isFormOpen, editingId, selectedTags, popupVars, callVars, storeVars>>
    /\ UNCHANGED <<phase, subs, localVars, filterVars, configVars, historyVars,
                   passes, tagLoads, initTags, beTags, events>>

\* setSelectedTags(prev => prev.includes(tagId) ? prev.filter(...) : [...prev, tagId])
handleTagToggle(tagId) ==
    /\ inputs < MaxInputs
    /\ inputs' = inputs + 1
    /\ view = "admin" /\ isFormOpen /\ ~isLoading
    /\ selectedTags' = toggleTag(selectedTags, tagId)
    /\ UNCHANGED <<isFormOpen, editingId, formData, popupVars, callVars, storeVars>>
    /\ UNCHANGED <<phase, subs, localVars, filterVars, configVars, historyVars,
                   passes, tagLoads, initTags, beTags, events>>

\* the Cancel button of the form
resetForm ==
    /\ inputs < MaxInputs
    /\ inputs' = inputs + 1
    /\ view = "admin" /\ isFormOpen /\ ~isLoading
    /\ isFormOpen' = FALSE
    /\ editingId' = NULL
    /\ formData' = emptyForm
    /\ selectedTags' = <<>>
    /\ UNCHANGED <<popupVars, callVars, storeVars>>
    /\ UNCHANGED <<phase, subs, localVars, filterVars, configVars, historyVars,
                   passes, tagLoads, initTags, beTags, events>>

\* a handleSubmit call at an await: the editingId, formData and selectedTags of the
\* render it was called in, its local demoId, the answer of DemoTag.list it holds
\* in existingDemoTags, the relationships it still has to delete and the index of
\* the selected tag it is creating the relationship of
SubmitCall(id, form, selected) ==
    [editingId |-> id, formData |-> form, selectedTags |-> selected,
     pc |-> IF TruthyId(id) THEN "update" ELSE "create",
     demoId |-> NULL, resp |-> "none", todo |-> <<>>, k |-> 0]

\* handleSubmit up to its first await: the two early returns, else Demo.update (with
\* an editingId) or Demo.create is issued
handleSubmit ==
    /\ inputs < MaxInputs
    /\ inputs' = inputs + 1
    /\ view = "admin" /\ phase = "mounted" /\ isFormOpen /\ ~isLoading
    /\ IF ~modelExists
       THEN /\ debugInfo' = {"Cannot submit: Demo model is not available"}
            /\ UNCHANGED submits
       ELSE IF ~validateForm(formData, selectedTags)
       THEN UNCHANGED <<debugInfo, submits>>
       ELSE /\ Len(submits) < MaxSubmits
            /\ submits' = Append(submits, SubmitCall(editingId, formData, selectedTags))
            /\ UNCHANGED debugInfo
    /\ UNCHANGED <<formVars, popupVars, creates, deletes, storeVars>>
    /\ UNCHANGED <<phase, subs, isLoading, modelExists, demos, demoTags, availableTags>>
    /\ UNCHANGED <<filterVars, configVars, historyVars, passes, tagLoads, initTags,
                   beTags, events>>

\* what handleSubmit leaves alone at every step: the streams, the tags, the popup
submitFrame ==
    /\ UNCHANGED <<popupVars, creates, deletes, inputs>>
    /\ UNCHANGED <<phase, subs, isLoading, modelExists, demos, demoTags, availableTags>>
    /\ UNCHANGED <<filterVars, configVars, historyVars, passes, tagLoads, initTags,
                   beTags, events>>

\* the ids the backend gives to the demos and relationships it creates
MadeIds == <<"n1", "n2", "n3", "n4", "n5", "n6">>
NewId(n) == MadeIds[n + 1]

\* the "Reset form" lines at the end of the try block
submitCompletes(c) ==
    /\ submits' = RemoveAt(submits, c)
    /\ formData' = emptyForm
    /\ selectedTags' = <<>>
    /\ isFormOpen' = FALSE

\* the handler reaches `for (const tagId of selectedTags)`: it awaits the first
\* DemoTag.create or, with no tag to link, runs to its end
enterLinks(c, call, demoId) ==
    IF Len(call.selectedTags) > 0
    THEN /\ submits' = [submits EXCEPT ![c] = [call EXCEPT !.pc = "link", !.k = 1,
                                                           !.demoId = demoId]]
         /\ UNCHANGED <<formData, selectedTags, isFormOpen>>
    ELSE submitCompletes(c)

\* Demo.update({id, ...formData}) on the backend collection
DemoUpdate(store, id, form) ==
    [i \in 1..Len(store) |->
        IF store[i].id = id
        THEN [store[i] EXCEPT !.projectName = form.projectName,
                              !.githubLink = form.githubLink,
                              !.projectLink = form.projectLink,
                              !.imageUrl = form.imageUrl]
        ELSE store[i]]

\* Demo.update answers: the handler goes on to DemoTag.list
demoUpdateReturns(c) ==
    /\ c \in 1..Len(submits)
    /\ submits[c].pc = "update"
    /\ beDemos' = DemoUpdate(beDemos, submits[c].editingId, submits[c].formData)
    /\ submits' = [submits EXCEPT ![c].pc = "list", ![c].demoId = submits[c].editingId]
    /\ UNCHANGED <<formVars, beRels, made>>
    /\ UNCHANGED debugInfo
    /\ submitFrame

\* DemoTag.list({filter: {demoId: {eq: id}}}) on the backend collection: the ids
ListRelIds(store, id) ==
    LET own == FilterIdx(store, {i \in 1..Len(store) : store[i].demoId = id}, 1)
    IN  [i \in 1..Len(own) |-> own[i].id]

\* the relationships are deleted (or there was none): setEditingId(null), then the
\* loop over selectedTags
afterDeletes(c, call) ==
    /\ editingId' = NULL
    /\ enterLinks(c, call, call.demoId)

\* DemoTag.list answers, with the relationships of the demo or with no data
relListReturns(c, outcome) ==
    /\ c \in 1..Len(submits)
    /\ submits[c].pc = "list"
    /\ outcome \in {"data", "nodata"}
    /\ LET todo == IF outcome = "data" THEN ListRelIds(beRels, submits[c].editingId)
                   ELSE <<>>
       IN  IF Len(todo) > 0
           THEN /\ submits' = [submits EXCEPT ![c].pc = "delete", ![c].resp = outcome,
                                               ![c].todo = todo]
                /\ UNCHANGED formVars
           ELSE afterDeletes(c, [submits[c] EXCEPT !.resp = outcome])
    /\ UNCHANGED <<storeVars, debugInfo>>
    /\ submitFrame

\* DemoTag.delete({id}) on the backend collection
RelDelete(store, id) == FilterIdx(store, {i \in 1..Len(store) : store[i].id # id}, 1)

\* DemoTag.delete answers: the next relationship, or on to the loop over selectedTags
relDeleteReturns(c) ==
    /\ c \in 1..Len(submits)
    /\ submits[c].pc = "delete"
    /\ beRels' = RelDelete(beRels, Head(submits[c].todo))
    /\ IF Len(submits[c].todo) > 1
       THEN /\ submits' = [submits EXCEPT ![c].todo = Tail(submits[c].todo)]
            /\ UNCHANGED formVars
       ELSE afterDeletes(c, [submits[c] EXCEPT !.todo = <<>>])
    /\ UNCHANGED <<beDemos, made, debugInfo>>
    /\ submitFrame

\* the record Demo.create(formData) adds to the backend collection
CreatedDemo(id, form) ==
    [id |-> id, projectName |-> form.projectName, githubLink |-> form.githubLink,
     projectLink |-> form.projectLink, imageUrl |-> form.imageUrl,
     createdAt |-> "c" \o id, updatedAt |-> "u" \o id]

\* Demo.create answers with the created record, or with no data and nothing created:
\* demoId = newDemo.data?.id || ""
demoCreateReturns(c, outcome) ==
    /\ c \in 1..Len(submits)
    /\ submits[c].pc = "create"
    /\ outcome \in {"record", "norecord"}
    /\ IF outcome = "record"
       THEN /\ made < MaxMade
            /\ beDemos' = Append(beDemos, CreatedDemo(NewId(made), submits[c].formData))
            /\ made' = made + 1
            /\ enterLinks(c, submits[c], NewId(made))
       ELSE /\ UNCHANGED <<beDemos, made>>
            /\ enterLinks(c, submits[c], "")
    /\ UNCHANGED <<editingId, beRels, debugInfo>>
    /\ submitFrame

\* DemoTag.create({demoId, tagId}) answers: the next selected tag, or the end
relCreateReturns(c) ==
    /\ c \in 1..Len(submits)
    /\ submits[c].pc = "link"
    /\ made < MaxMade
    /\ beRels' = Append(beRels, Rel(NewId(made), submits[c].demoId,
                                    submits[c].selectedTags[submits[c].k]))
    /\ made' = made + 1
    /\ IF submits[c].k < Len(submits[c].selectedTags)
       THEN /\ submits' = [submits EXCEPT ![c].k = submits[c].k + 1]
            /\ UNCHANGED <<formData, selectedTags, isFormOpen>>
       ELSE submitCompletes(c)
    /\ UNCHANGED <<editingId, beDemos, debugInfo>>
    /\ submitFrame

\* submitThrows that also resets the form, as the end of the try block does
submitThrowsAndResets(c) ==
    /\ c \in 1..Len(submits)
    /\ submitCompletes(c)
    /\ debugInfo' = {"Error in form submit"}
    /\ UNCHANGED <<editingId, storeVars>>
    /\ submitFrame

\* the awaited call of handleSubmit throws: the catch block
submitThrows(c) ==
    /\ c \in 1..Len(submits)
    /\ submits' = RemoveAt(submits, c)
    /\ debugInfo' = {"Error in form submit"}
    /\ UNCHANGED <<formVars, storeVars>>
    /\ submitFrame

----------------------------------------------------------------------------
(* deleteDemo: the Delete button of a demo card.                            *)

\* a deleteDemo call at an await: its id, the answer of DemoTag.list it holds in
\* demoTagsResponse and the relationships it still has to delete
DeleteCall(id) == [id |-> id, pc |-> "list", resp |-> "none", todo |-> <<>>]

\* deleteDemo up to its first await: the early return, window.confirm, then
\* DemoTag.list is issued
deleteDemo(demo, confirmed) ==
    /\ view = "admin" /\ phase = "mounted" /\ ~isLoading
    /\ demo \in Range(getFilteredDemos)
    /\ TruthyId(demo.id)
    /\ confirmed \in BOOLEAN
    /\ IF ~modelExists
       THEN /\ debugInfo' = {"Cannot delete: Demo model is not available"}
            /\ UNCHANGED deletes
       ELSE IF ~confirmed
       THEN UNCHANGED <<debugInfo, deletes>>
       ELSE IF "DemoTag" \notin availableModels
       \* client.models.DemoTag is undefined: the TypeError goes to the catch block
       THEN /\ debugInfo' = {"Error deleting demo"}
            /\ UNCHANGED deletes
       ELSE /\ Len(deletes) < MaxDeletes
            /\ deletes' = Append(deletes, DeleteCall(demo.id))
            /\ UNCHANGED debugInfo
    /\ UNCHANGED <<formVars, popupVars, submits, creates, storeVars, inputs>>
    /\ UNCHANGED <<phase, subs, isLoading, modelExists, demos, demoTags, availableTags>>
    /\ UNCHANGED <<filterVars, configVars, historyVars, passes, tagLoads, initTags,
                   beTags, events>>

\* what deleteDemo leaves alone at every step: the view's state but debugInfo
deleteFrame ==
    /\ UNCHANGED <<formVars, popupVars, submits, creates, made, inputs>>
    /\ UNCHANGED <<phase, subs, isLoading, modelExists, demos, demoTags, availableTags>>
    /\ UNCHANGED <<filterVars, configVars, historyVars, passes, tagLoads, initTags,
                   beTags, events>>

\* DemoTag.list answers, with the relationships of the demo or with no data: the
\* handler awaits the first DemoTag.delete or, with nothing to delete, Demo.delete
deleteListReturns(c, outcome) ==
    /\ c \in 1..Len(deletes)
    /\ deletes[c].pc = "list"
    /\ outcome \in {"data", "nodata"}
    /\ LET todo == IF outcome = "data" THEN ListRelIds(beRels, deletes[c].id)
                   ELSE <<>>
       IN  deletes' = [deletes EXCEPT ![c].resp = outcome,
                                      ![c].todo = todo,
                                      ![c].pc = IF Len(todo) > 0 THEN "delete"
                                                ELSE "demo"]
    /\ UNCHANGED <<beDemos, beRels, debugInfo>>
    /\ deleteFrame

\* deleteRelReturns that goes on to Demo.delete after the first relationship
deleteRelReturnsOnce(c) ==
    /\ c \in 1..Len(deletes)
    /\ deletes[c].pc = "delete"
    /\ beRels' = RelDelete(beRels, Head(deletes[c].todo))
    /\ deletes' = [deletes EXCEPT ![c].todo = <<>>, ![c].pc = "demo"]
    /\ UNCHANGED <<beDemos, debugInfo>>
    /\ deleteFrame

\* DemoTag.delete answers: the next relationship, or on to Demo.delete
deleteRelReturns(c) ==
    /\ c \in 1..Len(deletes)
    /\ deletes[c].pc = "delete"
    /\ beRels' = RelDelete(beRels, Head(deletes[c].todo))
    /\ deletes' = [deletes EXCEPT ![c].todo = Tail(deletes[c].todo),
                                  ![c].pc = IF Len(deletes[c].todo) > 1 THEN "delete"
                                            ELSE "demo"]
    /\ UNCHANGED <<beDemos, debugInfo>>
    /\ deleteFrame

\* Demo.delete({id}) on the backend collection
DemoDelete(store, id) == FilterIdx(store, {i \in 1..Len(store) : store[i].id # id}, 1)

\* Demo.delete answers: the handler ends
deleteDemoReturns(c) ==
    /\ c \in 1..Len(deletes)
    /\ deletes[c].pc = "demo"
    /\ beDemos' = DemoDelete(beDemos, deletes[c].id)
    /\ deletes' = RemoveAt(deletes, c)
    /\ UNCHANGED <<beRels, debugInfo>>
    /\ deleteFrame

\* the awaited call of deleteDemo throws: the catch block
deleteThrows(c) ==
    /\ c \in 1..Len(deletes)
    /\ deletes' = RemoveAt(deletes, c)
    /\ debugInfo' = {"Error deleting demo"}
    /\ UNCHANGED <<beDemos, beRels>>
    /\ deleteFrame

----------------------------------------------------------------------------
(* The derived view over loaded collections: the collections are drawn from *)
(* what the subscriptions can have delivered, and the user filters.         *)

\* the strings over the characters C of length at most n
RECURSIVE Strings(_, _)
Strings(C, n) ==
    IF n = 0 THEN {<<>>}
    ELSE LET shorter == Strings(C, n - 1)
         IN  shorter \cup {Append(t, c) : t \in shorter, c \in C}

Reverse(s) == [i \in 1..Len(s) |-> s[Len(s) + 1 - i]]

Robo == <<"r","o","b","o">>

\* what the user can type into the search box
SearchTerms == Strings({"a", "A", "o", "B"}, MaxTermLen) \cup {Robo}

\* the catalog the derived view is computed from: two named demos, one without a
\* display name and one with an empty display name
CatalogDemos == <<Demo("d1", Alpha, "1"), Demo("d2", NoString, "2"),
                  Demo("d3", RoboTax, "3"), Demo("d4", <<>>, "4")>>

CatalogTags == <<Tag("t1", Games, TAG_COLORS[1]), Tag("t3", ML, TAG_COLORS[2])>>

\* the enriched relationships of the catalog
CatalogDemoTags(v) ==
    <<Enriched(Rel("r1", "d1", "t1"), CatalogTags[1], v),
      Enriched(Rel("r2", "d1", "t3"), CatalogTags[2], v),
      Enriched(Rel("r3", "d2", "t1"), CatalogTags[1], v),
      Enriched(Rel("r4", "d3", "t3"), CatalogTags[2], v)>>

ProjectorInit ==
    /\ view \in {"user", "admin"}
    /\ availableModels = {"Demo", "Tag", "DemoTag"}
    /\ phase = "mounted"
    /\ subs = {"Demo", "Tag", "DemoTag"}
    /\ isLoading = FALSE
    /\ modelExists = (view = "admin")
    /\ debugInfo = {}
    /\ demos \in SubSeqsFrom(CatalogDemos, 1, MaxDemos)
                 \cup SubSeqsFrom(Reverse(CatalogDemos), 1, MaxDemos)
    /\ demoTags \in SubSeqsFrom(CatalogDemoTags(view), 1, MaxJoined)
    /\ beTags = CatalogTags
    /\ availableTags = validTags(CatalogTags, view)
    /\ searchTerm = <<>>
    /\ selectedFilterTags = <<>>
    /\ passes = <<>>
    /\ tagLoads = 0
    /\ initTags = IF view = "admin" THEN InitDone ELSE Idle
    /\ events = 0
    /\ lastRel = <<>>
    /\ beDemos = CatalogDemos
    /\ beRels = <<>>
    /\ AdminIdle

ProjectorNext ==
    \/ \E i \in 1..Len(availableTags) : handleFilterTagToggle(availableTags[i].id)
    \/ clearAllFilters
    \/ \E value \in SearchTerms : handleSearchChange(value)

SpecProjector == ProjectorInit /\ [][ProjectorNext]_vars

\* the filter handlers on their own: a mounted view that holds some demos of the
\* catalog and all its relationships
FilterInit ==
    /\ view \in {"user", "admin"}
    /\ availableModels = {"Demo", "Tag", "DemoTag"}
    /\ phase = "mounted"
    /\ subs = {"Demo", "Tag", "DemoTag"}
    /\ isLoading = FALSE
    /\ modelExists = (view = "admin")
    /\ debugInfo = {}
    /\ demos \in SubSeqsFrom(CatalogDemos, 1, MaxDemos)
    /\ demoTags = CatalogDemoTags(view)
    /\ beTags = CatalogTags
    /\ availableTags = validTags(CatalogTags, view)
    /\ searchTerm = <<>>
    /\ selectedFilterTags = <<>>
    /\ passes = <<>>
    /\ tagLoads = 0
    /\ initTags = IF view = "admin" THEN InitDone ELSE Idle
    /\ events = 0
    /\ lastRel = <<>>
    /\ beDemos = CatalogDemos
    /\ beRels = <<>>
    /\ AdminIdle

FilterNext ==
    \/ \E i \in 1..Len(availableTags) : handleFilterTagToggle(availableTags[i].id)
    \/ clearAllFilters
    \/ \E value \in SearchTerms : handleSearchChange(value)

SpecFilter == FilterInit /\ [][FilterNext]_vars

----------------------------------------------------------------------------
(* The admin view and its tags: the view is mounted, its form is open, and   *)
(* initializeTags, the Tag stream and handleAddTag run against the backend. *)

Ops == <<"O","p","s">>

\* a backend seeded with three tags, and one whose ten tags use the whole palette
SeededTags == [i \in 1..3 |-> Tag(TagIdPool[i], predefinedTags[i].name, TAG_COLORS[i])]
PaletteNames == <<Games, ML, Analytics, MandE, GenerativeAI, <<"T","6">>, <<"T","7">>,
                  <<"T","8">>, <<"T","9">>, <<"T","1","0">>>>
PaletteTags == [i \in 1..10 |-> Tag(TagIdPool[i], PaletteNames[i], TAG_COLORS[i])]

\* the Tag collection the admin view finds
TagStores == {SeededTags, PaletteTags}

\* what the admin can type into the popup
TagNameInputs == {<<" ">>, <<" ","g","a","m","e","s"," ">>, Ops}

TagsInit ==
    /\ view = "admin"
    /\ availableModels = {"Demo", "Tag", "DemoTag"}
    /\ phase = "mounted"
    /\ subs = {"Demo", "Tag", "DemoTag"}
    /\ isLoading = FALSE
    /\ modelExists = TRUE
    /\ debugInfo = {}
    /\ demos = <<>>
    /\ demoTags = <<>>
    /\ availableTags = <<>>
    /\ searchTerm = <<>>
    /\ selectedFilterTags = <<>>
    /\ passes = <<>>
    /\ tagLoads = 0
    /\ initTags = [pc |-> "list1", i |-> 0]
    /\ events = 0
    /\ lastRel = <<>>
    /\ beTags \in TagStores
    /\ beDemos = <<>>
    /\ beRels = <<>>
    /\ isFormOpen = TRUE
    /\ editingId = NULL
    /\ formData = emptyForm
    /\ selectedTags = <<>>
    /\ PopupIdle
    /\ NothingInFlight

TagsNext ==
    \/ openAddTag
    \/ \E value \in TagNameInputs : handleNewTagChange(value)
    \/ cancelAddTag
    \/ handleAddTag
    \/ \E c \in 1..MaxCreates : tagCreateApplied(c)
    \/ \E c \in 1..MaxCreates : \E outcome \in CreateOutcomes : tagCreateReturns(c, outcome)
    \/ tagSubscriptionNext
    \/ \E outcome \in ListOutcomes : initializeTagsChecked(outcome)
    \/ \E outcome \in ListOutcomes : initializeTagsFetched(outcome)

SpecTags == TagsInit /\ [][TagsNext]_vars

----------------------------------------------------------------------------
(* The admin view and its form: the collections are loaded, and the admin   *)
(* opens, fills, cancels and submits the form.                              *)

Beta == <<"B","e","t","a">>

\* the backend's demos: one with every field, one with none but its id
FormDemos == <<[Demo("d1", Alpha, "1") EXCEPT !.imageUrl = "img1"],
               [Demo("d2", NoString, "2") EXCEPT !.githubLink = NULL,
                                                 !.projectLink = NULL]>>

FormRels == <<Rel("r1", "d1", "t1"), Rel("r2", "d2", "t1"), Rel("r3", "d1", "t3")>>

\* the enrichment of the relationships rels against the tags
Joined(rels, tags, v) == [i \in 1..Len(rels) |-> Enriched(rels[i], TagGet(tags, rels[i].tagId), v)]

\* what the admin can type into a field of the form
FieldInputs(name) ==
    IF name = "projectName" THEN {<<>>, Beta}
    ELSE IF name = "githubLink" THEN {" ", "gh1"}
    ELSE IF name = "projectLink" THEN {"live1"}
    ELSE {"img1"}

\* a form the admin has opened with "+ Add Project" and filled in
Draft == [projectName |-> Beta, githubLink |-> "gh1", projectLink |-> "live1",
          imageUrl |-> "img1"]

DraftOpen ==
    /\ isFormOpen = TRUE
    /\ editingId = NULL
    /\ formData = Draft
    /\ selectedTags = <<"t1">>

FormInit ==
    /\ view = "admin"
    /\ availableModels = {"Demo", "Tag", "DemoTag"}
    /\ phase = "mounted"
    /\ subs = {"Demo", "Tag", "DemoTag"}
    /\ isLoading = FALSE
    /\ modelExists = TRUE
    /\ debugInfo = {}
    /\ beTags = CatalogTags
    /\ beDemos = FormDemos
    /\ beRels = FormRels
    /\ demos = typedItems(FormDemos)
    /\ demoTags = Joined(FormRels, CatalogTags, "admin")
    /\ availableTags = validTags(CatalogTags, "admin")
    /\ searchTerm = <<>>
    /\ selectedFilterTags = <<>>
    /\ passes = <<>>
    /\ tagLoads = 0
    /\ initTags = InitDone
    /\ events = 0
    /\ lastRel = FormRels
    /\ FormIdle \/ DraftOpen
    /\ PopupIdle
    /\ NothingInFlight

FormNext ==
    \/ openForm
    \/ \E i \in 1..Len(demos) : openEditForm(demos[i])
    \/ \E name \in FormFields : \E value \in FieldInputs(name) : handleChange(name, value)
    \/ \E i \in 1..Len(availableTags) : handleTagToggle(availableTags[i].id)
    \/ resetForm
    \/ handleSubmit
    \/ \E c \in 1..MaxSubmits : demoUpdateReturns(c)
    \/ \E c \in 1..MaxSubmits : \E outcome \in {"data", "nodata"} : relListReturns(c, outcome)
    \/ \E c \in 1..MaxSubmits : relDeleteReturns(c)
    \/ \E c \in 1..MaxSubmits : \E outcome \in {"record", "norecord"} : demoCreateReturns(c, outcome)
    \/ \E c \in 1..MaxSubmits : relCreateReturns(c)
    \/ \E c \in 1..MaxSubmits : submitThrows(c)

SpecForm == FormInit /\ [][FormNext]_vars

----------------------------------------------------------------------------
(* The admin view and its cards: the collections are loaded, and the admin  *)
(* deletes demos that have two relationships, one, or none any more.        *)

DeleteInit ==
    /\ view = "admin"
    /\ availableModels = {"Demo", "Tag", "DemoTag"}
    /\ phase = "mounted"
    /\ subs = {"Demo", "Tag", "DemoTag"}
    /\ isLoading = FALSE
    /\ modelExists = TRUE
    /\ debugInfo = {}
    /\ beTags = CatalogTags
    /\ beDemos = FormDemos
    /\ beRels = FormRels
    /\ demos = typedItems(FormDemos)
    /\ demoTags = Joined(FormRels, CatalogTags, "admin")
    /\ availableTags = validTags(CatalogTags, "admin")
    /\ searchTerm = <<>>
    /\ selectedFilterTags = <<>>
    /\ passes = <<>>
    /\ tagLoads = 0
    /\ initTags = InitDone
    /\ events = 0
    /\ lastRel = FormRels
    /\ AdminIdle

DeleteNext ==
    \/ \E i \in 1..Len(demos) : \E confirmed \in BOOLEAN : deleteDemo(demos[i], confirmed)
    \/ \E c \in 1..MaxDeletes : \E outcome \in {"data", "nodata"} : deleteListReturns(c, outcome)
    \/ \E c \in 1..MaxDeletes : deleteRelReturns(c)
    \/ \E c \in 1..MaxDeletes : deleteDemoReturns(c)
    \/ \E c \in 1..MaxDeletes : deleteThrows(c)
    \/ demoSubscriptionNext(beDemos)

SpecDelete == DeleteInit /\ [][DeleteNext]_vars

----------------------------------------------------------------------------
(* A view from its construction to its dismount, against a backend that may *)
(* lack some of the models: the check of the models, the streams and the    *)
(* one-shot tag fetches, and the admin's submit and delete buttons.         *)

ConfigInit ==
    /\ view \in {"user", "admin"}
    /\ availableModels \in SUBSET {"Demo", "Tag", "DemoTag"}
    /\ beTags = CatalogTags
    \* one demo and its relationship
    /\ beDemos = <<FormDemos[1]>>
    /\ beRels = <<FormRels[1]>>
    /\ LocalInit
    /\ AdminIdle

ConfigNext ==
    \/ UserMount
    \/ AdminMount
    \/ Unmount
    \/ demoSubscriptionNext(beDemos)
    \/ tagSubscriptionNext
    \/ \E outcome \in ListOutcomes : loadTagsReturns(outcome)
    \/ \E outcome \in ListOutcomes : initializeTagsChecked(outcome)
    \/ \E outcome \in ListOutcomes : initializeTagsFetched(outcome)
    \/ openForm
    \/ handleSubmit
    \/ \E i \in 1..Len(demos) : \E confirmed \in BOOLEAN : deleteDemo(demos[i], confirmed)
    \/ \E c \in 1..MaxDeletes : \E outcome \in {"data", "nodata"} : deleteListReturns(c, outcome)
    \/ \E c \in 1..MaxDeletes : deleteRelReturns(c)
    \/ \E c \in 1..MaxDeletes : deleteDemoReturns(c)
    \/ \E c \in 1..MaxDeletes : deleteThrows(c)

SpecConfig == ConfigInit /\ [][ConfigNext]_vars

----------------------------------------------------------------------------
(* The validation of tag records: a view is mounted on a backend whose Tag  *)
(* collection lists valid and invalid records in any order, and the Tag     *)
(* stream, loadTags and initializeTags validate what the backend lists.     *)

\* the four kinds of Tag record: valid, without a name, without a colour, without
\* an id
TagRecords == CHOOSE c \in TagConfigs : c # <<>>

\* the listings of at most MaxTagRecs of them, in every order, none twice
TagListings ==
    {s \in UNION {[1..n -> Range(TagRecords)] : n \in 1..MaxTagRecs} :
        \A i, j \in 1..Len(s) : s[i] = s[j] => i = j}

ValidateInit ==
    /\ view \in {"user", "admin"}
    /\ availableModels = {"Demo", "Tag", "DemoTag"}
    /\ beTags \in TagListings
    /\ beDemos = <<>>
    /\ beRels = <<>>
    /\ LocalInit
    /\ AdminIdle

ValidateNext ==
    \/ UserMount
    \/ AdminMount
    \/ tagSubscriptionNext
    \/ \E outcome \in ListOutcomes : loadTagsReturns(outcome)
    \/ \E outcome \in ListOutcomes : initializeTagsChecked(outcome)
    \/ \E outcome \in ListOutcomes : initializeTagsFetched(outcome)

SpecValidate == ValidateInit /\ [][ValidateNext]_vars

----------------------------------------------------------------------------
(* The derived view: claims C2, C3 and C4 (checked under SpecProjector).    *)

\* the demo at index i of the collection is in the result of getFilteredDemos
Shown(i) == \E r \in 1..Len(getFilteredDemos) : getFilteredDemos[r] = demos[i]

\* some enriched relationship links the demo to the tag id
Carries(demo, tagId) ==
    \E k \in 1..Len(demoTags) :
        demoTags[k].demoId = demo.id /\ demoTags[k].tagId = tagId

\* C2: the tag filter is conjunctive. A demo that passes the search condition is
\* in the result of getFilteredDemos if and only if for every selected tag id
\* there is an enriched relationship with the demo's id and that tag id; with an
\* empty selection every such demo is in the result.
C2_TagFilterConjunctive ==
    \A i \in 1..Len(demos) :
        matchesSearch(demos[i], searchTerm) =>
            /\ Shown(i) <=> \A t \in Range(selectedFilterTags) : Carries(demos[i], t)
            /\ selectedFilterTags = <<>> => Shown(i)

\* C2 witness: demos d1, d2 with relationships d1-t1, d1-t3, d2-t1 and the
\* selection {t1, t3} give exactly [d1].
C2_Witness ==
    /\ Len(demos) = 2 /\ demos[1].id = "d1" /\ demos[2].id = "d2"
    /\ Len(demoTags) = 3
    /\ Carries(demos[1], "t1") /\ Carries(demos[1], "t3") /\ Carries(demos[2], "t1")
    /\ Range(selectedFilterTags) = {"t1", "t3"}
    /\ searchTerm = <<>>
    /\ getFilteredDemos = <<demos[1]>>

\* the display name contains the term at some offset, letter case ignored
ContainsIgnoringCase(name, term) ==
    \E off \in 0..(Len(name) - Len(term)) :
        \A n \in 1..Len(term) : LowerChar(name[off + n]) = LowerChar(term[n])

\* a display name that is null, undefined or empty
NameAbsent(demo) == demo.projectName = NoString \/ Len(demo.projectName) = 0

\* C3: the search condition. A demo that passes the tag condition is in the
\* result of getFilteredDemos if and only if the search term is empty, or the demo
\* has a display name and the name contains the term as a case-insensitive
\* substring; a demo without a display name never passes a non-empty term.
C3_SearchCondition ==
    \A i \in 1..Len(demos) :
        matchesTags(demos[i], selectedFilterTags, demoTags) =>
            /\ Shown(i) <=>
                  \/ Len(searchTerm) = 0
                  \/ /\ ~NameAbsent(demos[i])
                     /\ ContainsIgnoringCase(demos[i].projectName, searchTerm)
            /\ (NameAbsent(demos[i]) /\ Len(searchTerm) > 0) => ~Shown(i)

\* C3 witness: the demo named "RoboTax" is shown for the search term "robo",
\* and a demo without a display name is left out.
C3_Witness ==
    /\ searchTerm = Robo
    /\ \E i \in 1..Len(demos) : demos[i].projectName = RoboTax /\ Shown(i)
    /\ \E i \in 1..Len(demos) : NameAbsent(demos[i]) /\ ~Shown(i)

\* C4: getFilteredDemos returns a subsequence of the demo collection: the demos
\* at some set of indices of the collection, each once, in the collection's order.
C4_Subsequence ==
    \E K \in SUBSET (1..Len(demos)) :
        /\ Len(getFilteredDemos) = Cardinality(K)
        /\ \A r \in 1..Len(getFilteredDemos) :
              \E i \in K : /\ Cardinality({j \in K : j <= i}) = r
                           /\ getFilteredDemos[r] = demos[i]

\* C4 witness: a collection that is not in id order, filtered by a search term,
\* keeps two demos in the collection's order.
C4_Witness ==
    /\ Len(demos) = 2 /\ demos[1].id = "d3" /\ demos[2].id = "d1"
    /\ Len(searchTerm) > 0
    /\ getFilteredDemos = demos

----------------------------------------------------------------------------
(* The synchronisation: claims C1 and C5 to C10 (checked under Spec).       *)

Present(x) == x \notin {NULL, ""}
Named(n) == n \notin {NoString, <<>>}

\* the r-th smallest element of the set of indices K
Nth(K, r) == CHOOSE i \in K : Cardinality({j \in K : j <= i}) = r

\* joined holds enriched relationships of some of the records of snapshot, in order
IsEnrichmentOf(joined, snapshot) ==
    \E K \in SUBSET (1..Len(snapshot)) :
        /\ Len(joined) = Cardinality(K)
        /\ \A r \in 1..Len(joined) :
              LET rel == snapshot[Nth(K, r)]
              IN  /\ joined[r].id = rel.id
                  /\ joined[r].demoId = rel.demoId
                  /\ joined[r].tagId = rel.tagId

\* C1: last snapshot wins for relationships. Once every enrichment pass has
\* finished, demoTags is the enrichment of the most recently delivered DemoTag
\* snapshot: a pass started for an older snapshot never overwrites it.
C1_LastSnapshotWins ==
    passes = <<>> => IsEnrichmentOf(demoTags, lastRel)

\* result is what the claim says a pass over items publishes, given the outcome
\* lookups[i] of the Tag.get for items[i]: the items that have both references
\* and whose lookup answered a record with an id and a name, in order, each with
\* the tag it resolved to
PublishedAsClaimed(items, lookups, result) ==
    LET K == {i \in 1..Len(items) :
                /\ Present(items[i].demoId) /\ Present(items[i].tagId)
                /\ i <= Len(lookups)
                /\ lookups[i].kind = "answered"
                /\ Present(lookups[i].data.id) /\ Named(lookups[i].data.name)}
    IN  /\ Len(result) = Cardinality(K)
        /\ \A r \in 1..Len(result) :
              LET i == Nth(K, r)
              IN  /\ result[r].id = items[i].id
                  /\ result[r].demoId = items[i].demoId
                  /\ result[r].tagId = items[i].tagId
                  /\ result[r].tag.id = lookups[i].data.id
                  /\ result[r].tag.name = lookups[i].data.name

\* C5: enrichment exclusion. A pass publishes an enriched relationship for a raw
\* relationship if and only if the relationship has both references and Tag.get
\* answered a record with an id and a name; an absent reference, a null answer, a
\* tag without a name or a lookup that throws leaves that relationship out, and
\* the others of the snapshot are still published.
C5_EnrichmentExclusion ==
    [][/\ Len(passes') < Len(passes) =>
              \A p \in 1..Len(passes) : \A answer \in TagGetAnswers(passes[p]) :
                  tagGetReturns(p, answer) =>
                      PublishedAsClaimed(passes[p].items,
                                         Append(passes[p].got, answer), demoTags')
       /\ (demoTagSubscriptionNext(lastRel') /\ passes' = passes) =>
              PublishedAsClaimed(lastRel', <<>>, demoTags')]_vars

\* C5 witness: of the snapshot [r1, r2] the pass has published r1, whose tag
\* resolved, and left out r2, whose tag has no name.
C5_Witness ==
    /\ passes = <<>>
    /\ Len(lastRel) = 2 /\ lastRel[1].id = "r1" /\ lastRel[2].id = "r2"
    /\ Len(demoTags) = 1 /\ demoTags[1].id = "r1" /\ demoTags[1].tag.name = Games
    /\ ~Named(TagGet(beTags, "t2").name)

\* the enriched relationship at index i names no demo of the demo collection
Dangling(i) == \A j \in 1..Len(demos) : demos[j].id # demoTags[i].demoId

C7_DemoFullReplace ==
    [][\A items \in DemoSnapshots :
          demoSubscriptionNext(items) =>
              /\ Len(demos') = Len(items)
              /\ \A i \in 1..Len(items) : demos'[i] = items[i]]_vars

\* C7 witness: a snapshot of two demos has been delivered and is the collection.
C7_Witness ==
    /\ ~isLoading
    /\ Len(demos) = 2 /\ demos[1].id = "d1" /\ demos[2].id = "d2"

\* local is what the claim says the tag collection is after the snapshot items:
\* its records that have an id and a name, in order, each with a non-empty id and
\* name (and its colour, or the view's default colour when it has none)
TagsAsClaimed(items, local) ==
    LET K == {i \in 1..Len(items) : Present(items[i].id) /\ Named(items[i].name)}
    IN  /\ Len(local) = Cardinality(K)
        /\ \A r \in 1..Len(local) :
              /\ local[r].id = items[Nth(K, r)].id
              /\ local[r].name = items[Nth(K, r)].name
              /\ Present(local[r].id) /\ Named(local[r].name)
              /\ Present(local[r].color)
              /\ Present(items[Nth(K, r)].color) => local[r].color = items[Nth(K, r)].color

\* C8: tag snapshot validation. Right after the Tag subscription delivers a
\* snapshot, availableTags is exactly the snapshot's records that have both an id
\* and a name, in snapshot order.
C8_TagSnapshotValidation ==
    [][tagSubscriptionNext => TagsAsClaimed(beTags, availableTags')]_vars

\* C8 witness: in the public view, whose own fetch is still pending, a snapshot of
\* four records, one without a name and one without an id, has left two tags.
C8_Witness ==
    /\ view = "user" /\ tagLoads = 1 /\ "Tag" \in subs
    /\ Len(beTags) = 4
    /\ Len(availableTags) = 2

C10_TagStreamFallback ==
    [][/\ tagSubscriptionError => tagLoads' = tagLoads + 1
       /\ loadTagsReturns("data") => TagsAsClaimed(beTags, availableTags')]_vars

----------------------------------------------------------------------------
(* The admin's tags: claims C11 to C15 (checked under SpecTags).            *)

\* a step that applies a snapshot of a subscription or the answer of a one-shot
\* tag fetch
AppliesSnapshot ==
    \/ \E items \in DemoSnapshots : demoSubscriptionNext(items)
    \/ tagSubscriptionNext
    \/ \E items \in RelSnapshots : demoTagSubscriptionNext(items)
    \/ \E p \in 1..Len(passes) : \E answer \in TagGetAnswers(passes[p]) :
          tagGetReturns(p, answer)
    \/ \E outcome \in ListOutcomes : loadTagsReturns(outcome)
    \/ \E outcome \in ListOutcomes : initializeTagsFetched(outcome)

\* C11: snapshots are the only source of truth. The local demo, tag and
\* relationship collections change only in a step that applies a subscription
\* snapshot or the one-shot tag fetch: no admin mutation handler writes a local
\* collection from the return value of the call it issued.
C11_SnapshotsOnlySource ==
    [][(demos' # demos \/ demoTags' # demoTags \/ availableTags' # availableTags)
          => AppliesSnapshot]_vars

\* the indices of the palette colours that no tag of tags uses
FreeColors(tags) ==
    {i \in 1..Len(TAG_COLORS) : \A j \in 1..Len(tags) : tags[j].color # TAG_COLORS[i]}

\* color is what the claim says nextColor gives for the existing tags
NextColorAsClaimed(tags, color) ==
    /\ Len(TAG_COLORS) = 10
    /\ \E i \in 1..Len(TAG_COLORS) : TAG_COLORS[i] = color
    /\ FreeColors(tags) # {} =>
          color = TAG_COLORS[CHOOSE i \in FreeColors(tags) :
                                \A h \in FreeColors(tags) : i <= h]
    /\ FreeColors(tags) = {} => color = TAG_COLORS[1]

\* C12: getNextAvailableColor. For the existing tags of every state the result is
\* the first entry, in palette order, of the 10-entry palette that no existing tag
\* uses, and the first palette entry when all 10 are used; it is always a palette
\* member, and so is the colour of every Tag.create that handleAddTag has issued.
C12_NextColor ==
    /\ NextColorAsClaimed(availableTags, getNextAvailableColor(availableTags))
    /\ \A c \in 1..Len(creates) :
          \E i \in 1..Len(TAG_COLORS) : TAG_COLORS[i] = creates[c].color

\* C12 witness: the existing tags use the palette entries 0, 1 and 2, and
\* handleAddTag has issued a Tag.create with entry 3.
C12_Witness ==
    /\ Len(availableTags) = 3
    /\ {availableTags[i].color : i \in 1..3} = {TAG_COLORS[1], TAG_COLORS[2], TAG_COLORS[3]}
    /\ Len(creates) = 1 /\ creates[1].pc = "sent"
    /\ creates[1].color = TAG_COLORS[4]

\* s without the spaces at its ends
Stripped(s) ==
    LET solid == {i \in 1..Len(s) : s[i] # " "}
    IN  IF solid = {} THEN <<>>
        ELSE SubSeq(s, CHOOSE i \in solid : \A h \in solid : i <= h,
                       CHOOSE i \in solid : \A h \in solid : h <= i)

\* the names a and b are equal, letter case ignored
SameIgnoringCase(a, b) ==
    /\ Len(a) = Len(b)
    /\ \A i \in 1..Len(a) : LowerChar(a[i]) = LowerChar(b[i])

\* some tag of tags has the proposed name, trimmed, letter case ignored
NameTaken(tags, proposed) ==
    LET name == Stripped(proposed)
    IN  \E i \in 1..Len(tags) : SameIgnoringCase(tags[i].name, name)

\* C13: tag name uniqueness check. When the proposed name is empty after trimming,
\* or some existing tag's name equals the trimmed proposed name case-insensitively,
\* handleAddTag issues no Tag.create, leaves the tag collections unchanged and
\* sets the add-tag error flag.
C13_DuplicateNameRejected ==
    [][(handleAddTag
        /\ (Stripped(newTagName) = <<>> \/ NameTaken(availableTags, newTagName)))
          => /\ creates' = creates
             /\ beTags' = beTags
             /\ availableTags' = availableTags
             /\ addTagError']_vars

\* C13 witness: the name " games " has been rejected against the tag "Games".
C13_Witness ==
    /\ newTagName = <<" ","g","a","m","e","s"," ">>
    /\ \E i \in 1..Len(availableTags) : availableTags[i].name = Games
    /\ isAddTagOpen /\ addTagError
    /\ creates = <<>> /\ made = 0 /\ debugInfo = {}

\* C14: tag names stay unique. No two tags of the backend's Tag collection have
\* names that are equal case-insensitively, and every tag name is non-empty.
C14_TagNamesUnique ==
    \A i \in 1..Len(beTags) :
        /\ Named(beTags[i].name)
        /\ \A j \in 1..Len(beTags) :
              i # j => ~SameIgnoringCase(beTags[i].name, beTags[j].name)

\* C15: no colour reuse while colours remain. As long as the backend's Tag
\* collection holds at most 10 tags, its tags have pairwise distinct colours.
C15_NoColourReuse ==
    Len(beTags) <= Len(TAG_COLORS) =>
        \A i \in 1..Len(beTags) : \A j \in 1..Len(beTags) :
            i # j => beTags[i].color # beTags[j].color

----------------------------------------------------------------------------
(* The admin's form: claims C16 to C20 (checked under SpecForm).            *)

\* the form is open and holds what call c was submitted with
HoldsSubmitted(c) ==
    /\ isFormOpen
    /\ formData = submits[c].formData
    /\ selectedTags = submits[c].selectedTags

\* C16: submit failure returns to the prior Open state. When a backend call of a
\* handleSubmit call fails while the form still holds what was submitted, the form
\* is open and editingId is the editingId the call was submitted with: the id of
\* the edited demo from OpenForEdit(id), null from OpenForCreate.
C16_FailureReturnsToOpenState ==
    [][\A c \in 1..Len(submits) :
          (HoldsSubmitted(c) /\ submitThrows(c))
              => /\ isFormOpen'
                 /\ editingId' = submits[c].editingId]_vars

\* a step in which call c goes on from one await to the next
Proceeds(c) ==
    /\ Len(submits') = Len(submits)
    /\ submits'[c] # submits[c]

C18_SubmitExclusive ==
    Len(submits) <= 1

\* C19: a successful submit ends in Closed. At the step in which a handleSubmit
\* call completes, the form is closed, editingId is null, the four form fields are
\* empty and no tag is selected.
C19_SuccessEndsClosed ==
    [][\A c \in 1..Len(submits) :
          (submits[c].pc = "link" /\ Len(submits') < Len(submits) /\ relCreateReturns(c))
              => /\ ~isFormOpen'
                 /\ editingId' = NULL
                 /\ formData' = emptyForm
                 /\ selectedTags' = <<>>]_vars

\* a form field holds the demo's value, or the empty string for an absent value
FieldAsClaimed(field, value) ==
    IF value \in {NULL, ""} THEN field = "" ELSE field = value

\* C20: edit pre-population. After openEditForm(demo) the form is open, editingId
\* is demo.id, each form field holds the demo's value (the empty string for an
\* absent one), and selectedTags is the tag ids of the relationships of demoTags
\* whose demoId is demo.id, in the order of demoTags.
C20_EditPrePopulation ==
    [][\A d \in 1..Len(demos) :
          openEditForm(demos[d]) =>
              LET K == {i \in 1..Len(demoTags) : demoTags[i].demoId = demos[d].id}
              IN  /\ isFormOpen'
                  /\ editingId' = demos[d].id
                  /\ IF Named(demos[d].projectName)
                     THEN formData'.projectName = demos[d].projectName
                     ELSE formData'.projectName = <<>>
                  /\ FieldAsClaimed(formData'.githubLink, demos[d].githubLink)
                  /\ FieldAsClaimed(formData'.projectLink, demos[d].projectLink)
                  /\ FieldAsClaimed(formData'.imageUrl, demos[d].imageUrl)
                  /\ Len(selectedTags') = Cardinality(K)
                  /\ \A r \in 1..Len(selectedTags') :
                        selectedTags'[r] = demoTags[Nth(K, r)].tagId]_vars

\* C20 witness: the form is open for the demo d2, which has no name, link or
\* image: every field is the empty string, and of the relationships r1 (d1), r2
\* (d2) and r3 (d1) the selection holds the tag of r2.
C20_Witness ==
    /\ isFormOpen /\ editingId = "d2"
    /\ formData = emptyForm
    /\ Len(demoTags) = 3 /\ demoTags[2].demoId = "d2"
    /\ selectedTags = <<demoTags[2].tagId>>

\* some relationship of store references the demo id
HasRelOf(store, id) == \E r \in 1..Len(store) : store[r].demoId = id

\* some demo of store has the id
HasDemo(store, id) == \E d \in 1..Len(store) : store[d].id = id

\* C21: cascade delete. When a deleteDemo(id) whose DemoTag.list answered with
\* data ends with the answer of Demo.delete, the backend holds no relationship
\* whose demoId is id and no demo with that id; and when such a call issues
\* Demo.delete, it has no relationship left to delete and none is in the backend.
C21_CascadeDelete ==
    [][\A c \in 1..Len(deletes) :
          /\ (deletes[c].resp = "data" /\ deleteDemoReturns(c))
                => /\ ~HasRelOf(beRels', deletes[c].id)
                   /\ ~HasDemo(beDemos', deletes[c].id)
          /\ (/\ Len(deletes') = Len(deletes)
              /\ deletes[c].pc # "demo" /\ deletes'[c].pc = "demo"
              /\ deletes'[c].resp = "data")
                => /\ deletes'[c].todo = <<>>
                   /\ ~HasRelOf(beRels', deletes[c].id)
                   /\ HasDemo(beDemos', deletes[c].id) = HasDemo(beDemos, deletes[c].id)]_vars

\* C21 witness: the demo d1, which had two relationships, has been deleted with
\* both of them, and nothing else.
C21_Witness ==
    /\ deletes = <<>> /\ debugInfo = {}
    /\ ~HasDemo(beDemos, "d1") /\ ~HasRelOf(beRels, "d1")
    /\ Len(beDemos) = Len(FormDemos) - 1
    /\ Len(beRels) = Len(FormRels) - 2


\* C27: a failed cascade does not delete the demo. When the DemoTag.list of a
\* deleteDemo call fails (it throws, or it answers without data) or one of its
\* DemoTag.delete calls throws, the call ends without issuing Demo.delete, the
\* backend's demos and relationships stay as they are at the failure, and the
\* diagnostic is recorded; and a declined confirmation issues no backend call.
C27_FailedCascadeKeepsDemo ==
    [][/\ \A c \in 1..Len(deletes) :
            (\/ deletes[c].pc \in {"list", "delete"} /\ deleteThrows(c)
             \/ deleteListReturns(c, "nodata"))
               => /\ Len(deletes') = Len(deletes) - 1
                  /\ beDemos' = beDemos
                  /\ beRels' = beRels
                  /\ "Error deleting demo" \in debugInfo'
       /\ \A d \in 1..Len(demos) :
            deleteDemo(demos[d], FALSE) => UNCHANGED <<deletes, beDemos, beRels>>]_vars

\* the relationships of store that reference the demo id
RelsOf(store, id) == {r \in 1..Len(store) : store[r].demoId = id}

\* C22: relationships equal the selected tags. When a handleSubmit call none of
\* whose backend calls failed completes, the backend relationships whose demoId is
\* the submitted demo are exactly one per selected tag id; and when a call that
\* edits a demo awaits its first DemoTag.create, no relationship the demo had is
\* left in the backend.
C22_RelationshipsEqualSelection ==
    [][\A c \in 1..Len(submits) :
          /\ (/\ submits[c].pc = "link" /\ Len(submits') < Len(submits)
              /\ submits[c].resp # "nodata" /\ submits[c].demoId # ""
              /\ relCreateReturns(c))
                => /\ \A r \in RelsOf(beRels', submits[c].demoId) :
                         beRels'[r].tagId \in Range(submits[c].selectedTags)
                   /\ \A k \in 1..Len(submits[c].selectedTags) :
                         Cardinality({r \in RelsOf(beRels', submits[c].demoId) :
                                        beRels'[r].tagId = submits[c].selectedTags[k]}) = 1
          /\ (/\ Len(submits') = Len(submits)
              /\ submits[c].pc \in {"list", "delete"} /\ submits'[c].pc = "link"
              /\ submits'[c].resp = "data")
                => RelsOf(beRels', submits[c].editingId) = {}]_vars

\* C29: created relationships reference an existing demo. The relationship that a
\* DemoTag.create of handleSubmit adds to the backend has the demoId of a demo the
\* backend holds, never an empty one: the id of the demo the call updated or
\* created.
C29_CreatedRelationshipHasDemo ==
    [][\A c \in 1..Len(submits) :
          (submits[c].pc = "link" /\ relCreateReturns(c))
              => /\ Len(beRels') = Len(beRels) + 1
                 /\ TruthyId(beRels'[Len(beRels')].demoId)
                 /\ HasDemo(beDemos', beRels'[Len(beRels')].demoId)
                 /\ submits[c].editingId # NULL
                       => beRels'[Len(beRels')].demoId = submits[c].editingId]_vars

----------------------------------------------------------------------------
(* The set-up and the dismount: claims C23 and C24 (checked under SpecConfig). *)

\* C23: configuration absence. Once a view is initialized against a backend that
\* lacks Demo, Tag or DemoTag, no subscription is open and no tag fetch is under
\* way, the local demo, tag and relationship collections are empty, loading has
\* ended, the admin view shows the configuration-issue notice (modelExists is
\* false) and no backend call of handleSubmit or deleteDemo is under way.
C23_ConfigurationAbsence ==
    (phase # "created" /\ availableModels # {"Demo", "Tag", "DemoTag"})
        => /\ subs = {}
           /\ tagLoads = 0 /\ initTags = Idle
           /\ demos = <<>> /\ availableTags = <<>> /\ demoTags = <<>>
           /\ ~isLoading
           /\ view = "admin" => ~modelExists
           /\ submits = <<>> /\ deletes = <<>>

\* C24: teardown. Once the view is dismounted no subscription that its set-up
\* established is open, whatever the backend's models are.
C24_Teardown ==
    phase = "unmounted" => subs = {}

----------------------------------------------------------------------------
(* The tag collection: claims C25, C26 and C28.                             *)

\* C25: convergence of the tag collection. Once the local tag collection of a
\* mounted view equals the valid tags of the backend's Tag collection, as it does
\* when the Tag stream has delivered its final snapshot, it stays equal while the
\* backend's tags do not change: no result of a one-shot fetch (loadTags,
\* initializeTags) or of a tag creation that completes later changes it.
C25_TagConvergence ==
    [][(/\ phase # "created"
        /\ availableTags = validTags(beTags, view)
        /\ beTags' = beTags)
          => availableTags' = validTags(beTags', view)]_vars

\* C28: the local tag collection of the admin view never holds two entries
\* with the same tag id, whatever the order in which Tag snapshots, the fetches of
\* initializeTags and the answers to handleAddTag's Tag.create arrive.
C28_UniqueTagIds ==
    view = "admin" =>
        \A i, j \in 1..Len(availableTags) :
            availableTags[i].id = availableTags[j].id => i = j

\* C26: validation is idempotent. For every listing of tag records, validating
\* the validated records again (dropping those without an id or a name) gives the
\* same sequence as validating once; so the tag collection a mounted view holds,
\* validated again, is the collection itself.
C26_ValidationIdempotent ==
    /\ validTags(validTags(beTags, view), view) = validTags(beTags, view)
    /\ phase = "mounted" => validTags(availableTags, view) = availableTags

\* C26 witness: a snapshot of a listing that starts with two invalid records was
\* validated, and the view holds the one valid record that follows them.
C26_Witness ==
    /\ phase = "mounted" /\ events > 0
    /\ Len(beTags) = 3
    /\ ~IsValidTag(beTags[1]) /\ ~IsValidTag(beTags[2]) /\ IsValidTag(beTags[3])
    /\ Len(availableTags) = 1 /\ availableTags[1].id = beTags[3].id

----------------------------------------------------------------------------
(* The filter handlers: claim C30 (checked under SpecFilter).               *)

\* no id occurs twice in the selection
NoRepeat(selected) ==
    \A i, j \in 1..Len(selected) : selected[i] = selected[j] => i = j

\* C30: the filter handlers. After any sequence of toggles, searches and clears
\* the selected filter tags hold no id twice; toggling one tag id twice in a row
\* gives the same set of selected tags; a step of clearAllFilters leaves the
\* search term and the selection empty and getFilteredDemos equal to the whole
\* demo collection; and no step of these handlers changes the demo, tag or
\* relationship collection.
C30_FilterOperations ==
    [][/\ NoRepeat(selectedFilterTags')
       /\ \A i \in 1..Len(availableTags) :
              Range(toggleTag(toggleTag(selectedFilterTags', availableTags[i].id),
                              availableTags[i].id))
                = Range(selectedFilterTags')
       /\ clearAllFilters =>
              /\ searchTerm' = <<>>
              /\ selectedFilterTags' = <<>>
              /\ getFilteredDemos' = demos'
       /\ demos' = demos /\ availableTags' = availableTags /\ demoTags' = demoTags]_vars

\* C30 witness: two tags are selected and a search term is typed, and the filters
\* hide a demo of the collection that clearAllFilters brings back.
C30_Witness ==
    /\ Len(selectedFilterTags) = 2
    /\ TruthyStr(searchTerm)
    /\ Len(getFilteredDemos) < Len(demos)

====
